---- MODULE Spec2Model ----
(***************************************************************************)
(* The resumable batch scraper of regular_season_scraper.py.               *)
(*                                                                         *)
(* Durable state: the resume file (RESUME_FILE), the batch files of        *)
(* SAVE_DIRECTORY, failed_games.csv and ncaa_games_data_complete.csv.      *)
(* Process state: the script's module-level variables and its position.    *)
(* The script is run, interrupted (Ctrl-C), killed, and run again.         *)
(*                                                                         *)
(* A game record (game_info) is represented by the index of its game in    *)
(* game_data: the fields extracted for a game are a function of the game,  *)
(* ExtractGameInfo of the pages fetched for it.                            *)
(***************************************************************************)
EXTENDS Integers, Sequences, FiniteSets, TLC

\* ------------------------------------------------------------- bounds
\* len(game_data): the number of rows of regular_season_game_ids.csv
NumGames == 4
\* BATCH_SIZE (50 in the script), scaled to the model
BATCH_SIZE == 2
\* how many times the script is started
MaxRuns == 2
\* how many file writes may raise OSError over a behaviour
MaxWriteFaults == 1
\* the longest resume-file text load_resume_state is applied to
MaxTextLen == 3
\* the most rows of the officials table, columns and rows of box_score[1],
\* columns and rows of team_stats[3] the extraction is applied to
MaxOfficials == 4
MaxBoxRows == 5
MaxBoxCols == 4
MaxStatRows == 14
MaxStatCols == 3

Games == 0 .. (NumGames - 1)

VARIABLES
    \* durable
    resume_file,    \* RESUME_FILE: [exists, text], text a sequence of characters
    batch_files,    \* SAVE_DIRECTORY/batch_NNNN.csv: batch number -> rows
    failed_file,    \* SAVE_DIRECTORY/failed_games.csv: [exists, rows]
    final_file,     \* ncaa_games_data_complete.csv: [exists, rows]
    \* the process
    pc,             \* position of the script; "idle" when no process runs
    start_index,
    current_batch,
    i,              \* the loop variable of line 102
    nxt,            \* the next value of range(start_index, total_games)
    batch_data,
    failed_games,
    \* the configuration and the input
    total_games,    \* len(game_data), line 90
    batch_size,     \* BATCH_SIZE, line 21
    \* the environment
    fail_set,       \* the games whose fetch or extraction raises
    \* history
    runs,           \* starts of the script so far
    write_faults,   \* file writes that raised so far
    crashes,        \* kills of the process so far
    interrupts,     \* runs ended by Ctrl-C so far
    outcome,        \* how the current or last run ended
    resumed,        \* the run started from a stored, readable resume state
    attempted,      \* the games the run has entered the loop body for, in order
    flushes,        \* the run's save_batch_data calls that wrote: [num, rows]
    fault_item,     \* the game being handled when a write raised in the loop, or -1
    save_old,       \* what load_resume_state returned before the last save began
    save_new,       \* the index the last save was called with
    crash_pc,       \* where the last kill happened: "save" inside save_resume_state
    appended,       \* the games whose record the run has appended to batch_data
    cut_pc,         \* where in the loop Ctrl-C or a kill ended the run
    \* one game's fetch
    raw             \* what the three pd.read_html calls return for a game

vars == << resume_file, batch_files, failed_file, final_file, pc, start_index,
           current_batch, i, nxt, batch_data, failed_games, fail_set, runs,
           write_faults, crashes, interrupts, outcome, resumed, attempted,
           flushes, fault_item, save_old, save_new, crash_pc, appended, cut_pc,
           total_games, batch_size, raw >>

config == << total_games, batch_size >>
durable == << resume_file, batch_files, failed_file, final_file >>
process == << start_index, current_batch, i, nxt, batch_data, failed_games >>

\* ------------------------------------------------------------- text
Digits == << "0", "1", "2", "3", "4", "5", "6", "7", "8", "9" >>

RECURSIVE NatStr(_)
NatStr(n) == IF n < 10 THEN << Digits[n + 1] >>
             ELSE NatStr(n \div 10) \o << Digits[(n % 10) + 1] >>

\* str(last_completed_index), line 61
PyStr(n) == IF n < 0 THEN << "-" >> \o NatStr(0 - n) ELSE NatStr(n)

IsDigit(c) == \E d \in 1 .. 10 : Digits[d] = c
DigitVal(c) == (CHOOSE d \in 1 .. 10 : Digits[d] = c) - 1
IsSpace(c) == c \in { " ", "\n", "\t" }

RECURSIVE LStrip(_)
LStrip(s) == IF s # << >> /\ IsSpace(Head(s)) THEN LStrip(Tail(s)) ELSE s

RECURSIVE RStrip(_)
RStrip(s) == IF s # << >> /\ IsSpace(s[Len(s)])
             THEN RStrip(SubSeq(s, 1, Len(s) - 1)) ELSE s

\* str.strip(), line 67
Strip(s) == RStrip(LStrip(s))

RECURSIVE DigitsVal(_, _)
DigitsVal(s, acc) == IF s = << >> THEN acc
                     ELSE DigitsVal(Tail(s), acc * 10 + DigitVal(Head(s)))

AllDigits(s) == s # << >> /\ \A k \in 1 .. Len(s) : IsDigit(s[k])

\* int(text), line 67: [ok, val]; ok is FALSE where int raises ValueError
PyInt(s) ==
    IF s # << >> /\ Head(s) \in { "-", "+" }
    THEN IF AllDigits(Tail(s))
         THEN [ok |-> TRUE,
               val |-> IF Head(s) = "-" THEN 0 - DigitsVal(Tail(s), 0)
                       ELSE DigitsVal(Tail(s), 0)]
         ELSE [ok |-> FALSE, val |-> 0]
    ELSE IF AllDigits(s) THEN [ok |-> TRUE, val |-> DigitsVal(s, 0)]
         ELSE [ok |-> FALSE, val |-> 0]

\* ------------------------------------------------------------- files
NoFile == [exists |-> FALSE, text |-> << >>]
NoTable == [exists |-> FALSE, rows |-> << >>]

\* load_resume_state, lines 63-69: open or int raising gives 0
load_resume_state(f) ==
    IF ~f.exists THEN 0
    ELSE LET p == PyInt(Strip(f.text)) IN IF p.ok THEN p.val ELSE 0

\* the resume file holds text that int() reads
Readable(f) == f.exists /\ PyInt(Strip(f.text)).ok

\* f"{batch_num:04d}", line 54: the digits, zero-padded to four
BatchName(n) ==
    LET d == NatStr(n)
    IN IF Len(d) >= 4 THEN d
       ELSE [k \in 1 .. (4 - Len(d)) |-> "0"] \o d

\* string comparison of two file names, as sorted() compares them (line 73);
\* the names differ in their digits only, and digits compare by value
RECURSIVE NameLess(_, _)
NameLess(a, b) ==
    IF a = << >> THEN b # << >>
    ELSE IF b = << >> THEN FALSE
    ELSE IF Head(a) = Head(b) THEN NameLess(Tail(a), Tail(b))
    ELSE DigitVal(Head(a)) < DigitVal(Head(b))

\* save_batch_data, lines 52-56: the file of batch_num holds the rows
save_batch_data(files, rows, batch_num) ==
    [b \in (DOMAIN files) \cup { batch_num } |->
        IF b = batch_num THEN rows ELSE files[b]]

\* the file a listing without sorted() may give first
FirstFileUnsorted(S) == CHOOSE b \in S : \A c \in S : c <= b

\* the first file of sorted(all_files), line 73
FirstFile(S) == CHOOSE b \in S :
                    \A c \in S \ { b } : NameLess(BatchName(b), BatchName(c))

RECURSIVE ConcatFiles(_, _)
ConcatFiles(files, S) ==
    IF S = { } THEN << >>
    ELSE LET b == FirstFile(S) IN files[b] \o ConcatFiles(files, S \ { b })

\* a merge that appends to the final file instead of replacing it
merge_appends(files, final) ==
    IF DOMAIN files = { } THEN final
    ELSE [exists |-> TRUE,
          rows |-> final.rows \o ConcatFiles(files, DOMAIN files)]

\* merge_batch_files, lines 71-84: the final file after the merge
merge_batch_files(files, final) ==
    IF DOMAIN files = { } THEN final
    ELSE [exists |-> TRUE, rows |-> ConcatFiles(files, DOMAIN files)]

\* ------------------------------------------------------------- extraction
\* a value of a DataFrame cell or of a game_info field
None == [kind |-> "None", r |-> 0, c |-> 0]

\* a fetched table: whether read_html returned it, its shape, and what its
\* cells hold ("num": a number, "text": no number, "nan": NaN)
NoDataFrame == [present |-> FALSE, rows |-> 0, cols |-> 0, kind |-> "nan"]

\* DataFrame.empty: an axis of length 0
Empty(t) == t.rows = 0 \/ t.cols = 0

\* df.iloc[r, c] raises IndexError outside the frame
InFrame(t, r, c) == r < t.rows /\ c < t.cols
iloc(t, r, c) == [kind |-> t.kind, r |-> r, c |-> c]

\* safe_convert_to_numeric, lines 32-39
safe_convert_to_numeric(value) == IF value.kind = "num" THEN value ELSE None

\* [None] * n, line 48: the empty list for n <= 0
NoneList(n) == IF n <= 0 THEN << >> ELSE [k \in 1 .. n |-> None]

\* officials_df['Official'].tolist(), line 46: the rows of the column
OfficialList(df) == [k \in 1 .. df.rows |-> iloc(df, k - 1, 0)]

\* get_officials, lines 41-50
get_officials(officials_df) ==
    IF ~officials_df.present \/ Empty(officials_df) \/ officials_df.rows < 3
    THEN << None, None, None >>
    ELSE LET officials_list ==
                 OfficialList(officials_df)
                     \o NoneList(3 - Len(OfficialList(officials_df)))
         IN << officials_list[1], officials_list[2], officials_list[3] >>

\* the cells lines 133-142 read of box_score[1]; Numeric: through
\* safe_convert_to_numeric
BoxCells ==
    [Home_Team |-> << 1, 0 >>, Away_Team |-> << 2, 0 >>,
     Home_Score_1H |-> << 1, 1 >>, Home_Score_2H |-> << 1, 2 >>,
     Home_Score_Final |-> << 1, 3 >>, Away_Score_1H |-> << 2, 1 >>,
     Away_Score_2H |-> << 2, 2 >>, Away_Score_Final |-> << 2, 3 >>,
     Venue |-> << 4, 0 >>, Game_Time |-> << 3, 0 >>]

BoxText == { "Home_Team", "Away_Team", "Venue", "Game_Time" }

\* the cells lines 155-180 read of team_stats[3], all through
\* safe_convert_to_numeric
StatCells ==
    [Home_Personal_Fouls |-> << 9, 1 >>, Away_Personal_Fouls |-> << 9, 2 >>,
     Home_FTM |-> << 7, 1 >>, Away_FTM |-> << 7, 2 >>,
     Home_FTA |-> << 8, 1 >>, Away_FTA |-> << 8, 2 >>,
     Home_FT_Percentage |-> << 8, 1 >>, Away_FT_Percentage |-> << 8, 2 >>,
     Home_Technical_Fouls |-> << 10, 1 >>,
     Away_Technical_Fouls |-> << 10, 2 >>,
     Home_Flagrant_Fouls |-> << 11, 1 >>, Away_Flagrant_Fouls |-> << 11, 2 >>,
     Home_Fouls_1H |-> << 12, 1 >>, Away_Fouls_1H |-> << 12, 2 >>,
     Home_Fouls_2H |-> << 13, 1 >>, Away_Fouls_2H |-> << 13, 2 >>]

\* the guard of lines 133-142, and of line 149
Guarded(t) == t.present /\ ~Empty(t)

\* lines 133-142 and 155-180: a read outside its frame raises IndexError
ExtractionRaises(docs) ==
    \/ /\ Guarded(docs.box_score)
       /\ \E f \in DOMAIN BoxCells :
              ~InFrame(docs.box_score, BoxCells[f][1], BoxCells[f][2])
    \/ /\ Guarded(docs.team_stats)
       /\ \E f \in DOMAIN StatCells :
              ~InFrame(docs.team_stats, StatCells[f][1], StatCells[f][2])

\* lines 130-146 without the officials
BoxInfo(t) ==
    [f \in DOMAIN BoxCells |->
        IF ~Guarded(t) THEN None
        ELSE IF f \in BoxText THEN iloc(t, BoxCells[f][1], BoxCells[f][2])
        ELSE safe_convert_to_numeric(iloc(t, BoxCells[f][1], BoxCells[f][2]))]

\* lines 127 and 143-145
OfficialInfo(t) ==
    [Official_1 |-> get_officials(t)[1], Official_2 |-> get_officials(t)[2],
     Official_3 |-> get_officials(t)[3]]

\* lines 153-181
StatInfo(t) ==
    [f \in DOMAIN StatCells |->
        safe_convert_to_numeric(iloc(t, StatCells[f][1], StatCells[f][2]))]

\* a difference or a sum of two numbers, lines 185, 186 and 189
Derived == [kind |-> "num", r |-> 0, c |-> 0]

\* lines 184-189: the keys are set where both operands are numbers
DerivedInfo(st) ==
    (IF st.Home_Personal_Fouls # None /\ st.Away_Personal_Fouls # None
     THEN [Foul_Differential |-> Derived, Total_Fouls |-> Derived]
     ELSE << >>)
    @@ (IF st.Home_FTA # None /\ st.Away_FTA # None
        THEN [Free_Throw_Differential |-> Derived]
        ELSE << >>)

\* lines 126-190: game_info of the fetched documents, where nothing raises
ExtractGameInfo(docs) ==
    BoxInfo(docs.box_score) @@ OfficialInfo(docs.officials)
    @@ (IF Guarded(docs.team_stats)
        THEN StatInfo(docs.team_stats) @@ DerivedInfo(StatInfo(docs.team_stats))
        ELSE << >>)

\* the pages of a played game: three officials, the line score, the period
\* statistics
FullDocs ==
    [officials |-> [present |-> TRUE, rows |-> 3, cols |-> 1, kind |-> "text"],
     box_score |-> [present |-> TRUE, rows |-> 5, cols |-> 4, kind |-> "num"],
     team_stats |-> [present |-> TRUE, rows |-> 14, cols |-> 3,
                     kind |-> "num"]]

\* ------------------------------------------------------------- initial state
\* no data on disk, no process, nothing happened yet
Fresh ==
    /\ batch_files = << >>
    /\ failed_file = NoTable
    /\ final_file = NoTable
    /\ pc = "idle"
    /\ start_index = 0
    /\ current_batch = 1
    /\ i = 0
    /\ nxt = 0
    /\ batch_data = << >>
    /\ failed_games = << >>
    /\ runs = 0
    /\ write_faults = 0
    /\ crashes = 0
    /\ interrupts = 0
    /\ outcome = "none"
    /\ resumed = FALSE
    /\ attempted = << >>
    /\ flushes = << >>
    /\ fault_item = -1
    /\ save_old = 0
    /\ save_new = 0
    /\ crash_pc = "none"
    /\ appended = { }
    /\ cut_pc = "none"

Init ==
    /\ Fresh
    /\ resume_file = NoFile
    /\ fail_set \in SUBSET Games
    /\ total_games = NumGames
    /\ batch_size = BATCH_SIZE
    /\ raw = FullDocs

history == << runs, write_faults, crashes, interrupts, outcome, resumed,
              attempted, flushes, fault_item, save_old, save_new, crash_pc,
              appended, cut_pc >>

\* ------------------------------------------------------------- the script
\* a start that ignores the resume file and begins at the first game
StartFromZero ==
    /\ pc = "idle"
    /\ runs < MaxRuns
    /\ start_index' = 0
    /\ current_batch' = 1
    /\ batch_data' = << >>
    /\ failed_games' = << >>
    /\ nxt' = 0
    /\ pc' = "for"
    /\ runs' = runs + 1
    /\ outcome' = "running"
    /\ resumed' = Readable(resume_file)
    /\ attempted' = << >>
    /\ flushes' = << >>
    /\ fault_item' = -1
    /\ save_old' = 0
    /\ save_new' = 0
    /\ crash_pc' = "none"
    /\ appended' = { }
    /\ cut_pc' = "none"
    /\ UNCHANGED << durable, i, fail_set, write_faults, crashes, interrupts,
                    config, raw >>

\* lines 89-99: the script starts
Start ==
    /\ pc = "idle"
    /\ runs < MaxRuns
    /\ start_index' = load_resume_state(resume_file)
    /\ current_batch' = (start_index' \div batch_size) + 1
    /\ batch_data' = << >>
    /\ failed_games' = << >>
    /\ nxt' = start_index'
    /\ pc' = "for"
    /\ runs' = runs + 1
    /\ outcome' = "running"
    /\ resumed' = Readable(resume_file)
    /\ attempted' = << >>
    /\ flushes' = << >>
    /\ fault_item' = -1
    /\ save_old' = 0
    /\ save_new' = 0
    /\ crash_pc' = "none"
    /\ appended' = { }
    /\ cut_pc' = "none"
    /\ UNCHANGED << durable, i, fail_set, write_faults, crashes, interrupts,
                    config, raw >>

\* line 102: the for statement takes the next index, or the loop ends
ForNext ==
    /\ pc = "for"
    /\ IF nxt < total_games
       THEN /\ i' = nxt
            /\ nxt' = nxt + 1
            /\ attempted' = Append(attempted, nxt)
            /\ pc' = "fetch"
       ELSE /\ pc' = "tail"
            /\ UNCHANGED << i, nxt, attempted >>
    /\ UNCHANGED << durable, start_index, current_batch, batch_data,
                    failed_games, fail_set, runs, write_faults, crashes,
                    interrupts, outcome, resumed, flushes, fault_item,
                    save_old, save_new, crash_pc, appended, cut_pc, config,
                    raw >>

\* lines 210-214: except Exception
ExceptException ==
    /\ failed_games' = Append(failed_games, i)
    /\ pc' = "for"

\* lines 106-191: the three fetches and the extraction succeed
FetchOk ==
    /\ pc = "fetch"
    /\ i \notin fail_set
    /\ ~ExtractionRaises(raw)
    /\ batch_data' = Append(batch_data, i)
    /\ appended' = appended \cup { i }
    /\ pc' = "check"
    /\ UNCHANGED << durable, start_index, current_batch, i, nxt, failed_games,
                    fail_set, runs, write_faults, crashes, interrupts, outcome,
                    resumed, attempted, flushes, fault_item, save_old,
                    save_new, crash_pc, cut_pc, config, raw >>

\* a fetch error that ends the run instead of going on to the next game
FetchFailsAborts ==
    /\ pc = "fetch"
    /\ i \in fail_set \/ ExtractionRaises(raw)
    /\ failed_games' = Append(failed_games, i)
    /\ outcome' = "aborted"
    /\ pc' = "finally"
    /\ UNCHANGED << durable, start_index, current_batch, i, nxt, batch_data,
                    fail_set, runs, write_faults, crashes, interrupts, resumed,
                    attempted, flushes, fault_item, save_old, save_new,
                    crash_pc, appended, cut_pc, config, raw >>

\* lines 106-190 raise: the game goes to failed_games
FetchFails ==
    /\ pc = "fetch"
    /\ i \in fail_set \/ ExtractionRaises(raw)
    /\ ExceptException
    /\ UNCHANGED << durable, start_index, current_batch, i, nxt, batch_data,
                    fail_set, history, config, raw >>

\* lines 194-195: the batch is full and is written
SaveFullBatch ==
    /\ pc = "check"
    /\ Len(batch_data) >= batch_size
    /\ batch_files' = save_batch_data(batch_files, batch_data, current_batch)
    /\ flushes' = Append(flushes, [num |-> current_batch, rows |-> batch_data])
    /\ pc' = "reset"
    /\ UNCHANGED << resume_file, failed_file, final_file, process, fail_set,
                    runs, write_faults, crashes, interrupts, outcome, resumed,
                    attempted, fault_item, save_old, save_new, crash_pc,
                    appended, cut_pc, config, raw >>

\* line 195 raises OSError: caught by except Exception of line 210
SaveFullBatchFails ==
    /\ pc = "check"
    /\ Len(batch_data) >= batch_size
    /\ write_faults < MaxWriteFaults
    /\ write_faults' = write_faults + 1
    /\ fault_item' = i
    /\ ExceptException
    /\ UNCHANGED << durable, start_index, current_batch, i, nxt, batch_data,
                    fail_set, runs, crashes, interrupts, outcome, resumed,
                    attempted, flushes, save_old, save_new, crash_pc, appended,
                    cut_pc, config, raw >>

\* line 194 is false
BatchNotFull ==
    /\ pc = "check"
    /\ Len(batch_data) < batch_size
    /\ pc' = "save_open"
    /\ UNCHANGED << durable, process, fail_set, history, config, raw >>

\* a reset that keeps the batch number
ResetBatchSameNumber ==
    /\ pc = "reset"
    /\ batch_data' = << >>
    /\ pc' = "save_open"
    /\ UNCHANGED << durable, start_index, current_batch, i, nxt, failed_games,
                    fail_set, history, config, raw >>

\* lines 197-198
ResetBatch ==
    /\ pc = "reset"
    /\ batch_data' = << >>
    /\ current_batch' = current_batch + 1
    /\ pc' = "save_open"
    /\ UNCHANGED << durable, start_index, i, nxt, failed_games, fail_set,
                    history, config, raw >>

\* line 60: open(RESUME_FILE, 'w') creates or empties the file
SaveOpen ==
    /\ pc = "save_open"
    /\ save_old' = load_resume_state(resume_file)
    /\ save_new' = i
    /\ resume_file' = [exists |-> TRUE, text |-> << >>]
    /\ pc' = "save_write"
    /\ UNCHANGED << batch_files, failed_file, final_file, process, fail_set,
                    runs, write_faults, crashes, interrupts, outcome, resumed,
                    attempted, flushes, fault_item, crash_pc, appended, cut_pc,
                    config, raw >>

\* line 60 raises OSError: caught by except Exception of line 210
SaveOpenFails ==
    /\ pc = "save_open"
    /\ write_faults < MaxWriteFaults
    /\ write_faults' = write_faults + 1
    /\ fault_item' = i
    /\ ExceptException
    /\ UNCHANGED << durable, start_index, current_batch, i, nxt, batch_data,
                    fail_set, runs, crashes, interrupts, outcome, resumed,
                    attempted, flushes, save_old, save_new, crash_pc, appended,
                    cut_pc, config, raw >>

\* a save that leaves the opened file without the index
SaveWriteNothing ==
    /\ pc = "save_write"
    /\ pc' = "for"
    /\ UNCHANGED << durable, process, fail_set, history, config, raw >>

\* line 61 and the end of the with block: the text reaches the file
SaveWrite ==
    /\ pc = "save_write"
    /\ resume_file' = [exists |-> TRUE, text |-> PyStr(i)]
    /\ pc' = "for"
    /\ UNCHANGED << batch_files, failed_file, final_file, process, fail_set,
                    history, config, raw >>

\* lines 216-219: the loop is over and the last batch is written
TailFlush ==
    /\ pc = "tail"
    /\ batch_data # << >>
    /\ batch_files' = save_batch_data(batch_files, batch_data, current_batch)
    /\ flushes' = Append(flushes, [num |-> current_batch, rows |-> batch_data])
    /\ outcome' = "completed"
    /\ cut_pc' = "none"
    /\ pc' = "finally"
    /\ UNCHANGED << resume_file, failed_file, final_file, process, fail_set,
                    runs, write_faults, crashes, interrupts, resumed,
                    attempted, fault_item, save_old, save_new, crash_pc,
                    appended, config, raw >>

\* line 218 raises OSError: no handler but finally, the run ends in the error
TailFlushFails ==
    /\ pc = "tail"
    /\ batch_data # << >>
    /\ write_faults < MaxWriteFaults
    /\ write_faults' = write_faults + 1
    /\ outcome' = "aborted"
    /\ cut_pc' = "none"
    /\ pc' = "finally"
    /\ UNCHANGED << durable, process, fail_set, runs, crashes, interrupts,
                    resumed, attempted, flushes, fault_item, save_old,
                    save_new, crash_pc, appended, config, raw >>

\* a tail that writes the batch file although nothing is left to write
TailEmptyWrites ==
    /\ pc = "tail"
    /\ batch_data = << >>
    /\ batch_files' = save_batch_data(batch_files, batch_data, current_batch)
    /\ flushes' = Append(flushes, [num |-> current_batch, rows |-> batch_data])
    /\ outcome' = "completed"
    /\ cut_pc' = "none"
    /\ pc' = "finally"
    /\ UNCHANGED << resume_file, failed_file, final_file, process, fail_set,
                    runs, write_faults, crashes, interrupts, resumed,
                    attempted, fault_item, save_old, save_new, crash_pc,
                    appended, config, raw >>

\* line 217 is false
TailEmpty ==
    /\ pc = "tail"
    /\ batch_data = << >>
    /\ outcome' = "completed"
    /\ cut_pc' = "none"
    /\ pc' = "finally"
    /\ UNCHANGED << durable, process, fail_set, runs, write_faults, crashes,
                    interrupts, resumed, attempted, flushes, fault_item,
                    save_old, save_new, crash_pc, appended, config, raw >>

InTry == pc \in { "for", "fetch", "check", "reset", "save_open", "save_write",
                  "tail" }

\* where in the handling of a game the position p lies: between two games,
\* in the fetches, after the append of line 191, or inside save_resume_state
CutClass(p) ==
    IF p \in { "for", "tail" } THEN "between"
    ELSE IF p = "fetch" THEN "fetch"
    ELSE IF p = "save_write" THEN "save"
    ELSE "after_append"

\* a Ctrl-C handler that leaves batch_data unwritten
KeyboardInterruptNoFlush ==
    /\ InTry
    /\ outcome' = "interrupted"
    /\ interrupts' = interrupts + 1
    /\ cut_pc' = CutClass(pc)
    /\ pc' = "finally"
    /\ UNCHANGED << durable, process, fail_set, runs, write_faults, crashes,
                    resumed, attempted, flushes, fault_item, save_old,
                    save_new, crash_pc, appended, config, raw >>

\* lines 221-227: Ctrl-C anywhere inside the outer try. KeyboardInterrupt is
\* no Exception, so line 210 does not catch it. Inside the with block of
\* line 60 the file is closed as it is.
KeyboardInterrupt ==
    /\ InTry
    /\ IF batch_data # << >>
       THEN /\ batch_files' =
                   save_batch_data(batch_files, batch_data, current_batch)
            /\ flushes' =
                   Append(flushes, [num |-> current_batch, rows |-> batch_data])
       ELSE UNCHANGED << batch_files, flushes >>
    /\ outcome' = "interrupted"
    /\ interrupts' = interrupts + 1
    /\ cut_pc' = CutClass(pc)
    /\ pc' = "finally"
    /\ UNCHANGED << resume_file, failed_file, final_file, process, fail_set,
                    runs, write_faults, crashes, resumed, attempted,
                    fault_item, save_old, save_new, crash_pc, appended, config,
                    raw >>

\* the process is gone: its variables hold nothing any more
ProcessExit ==
    /\ pc' = "idle"
    /\ start_index' = 0
    /\ current_batch' = 1
    /\ i' = 0
    /\ nxt' = 0
    /\ batch_data' = << >>
    /\ failed_games' = << >>

\* a finally block that merges only where the loop was not interrupted
FinallyMergeUnlessInterrupted ==
    /\ pc = "finally"
    /\ failed_file' = IF failed_games # << >>
                      THEN [exists |-> TRUE, rows |-> failed_games]
                      ELSE failed_file
    /\ final_file' = IF outcome = "interrupted" THEN final_file
                     ELSE merge_batch_files(batch_files, final_file)
    /\ ProcessExit
    /\ UNCHANGED << resume_file, batch_files, fail_set, history, config, raw >>

\* lines 229-243: finally, on every way out of the try
Finally ==
    /\ pc = "finally"
    /\ failed_file' = IF failed_games # << >>
                      THEN [exists |-> TRUE, rows |-> failed_games]
                      ELSE failed_file
    /\ final_file' = merge_batch_files(batch_files, final_file)
    /\ ProcessExit
    /\ UNCHANGED << resume_file, batch_files, fail_set, history, config, raw >>

\* the process is killed (SIGKILL, power loss): no handler runs
Crash ==
    /\ pc # "idle"
    /\ crash_pc' = IF pc = "save_write" THEN "save" ELSE "other"
    /\ cut_pc' = IF pc = "finally" THEN cut_pc ELSE CutClass(pc)
    /\ crashes' = crashes + 1
    /\ outcome' = "crashed"
    /\ ProcessExit
    /\ UNCHANGED << durable, fail_set, runs, write_faults, interrupts, resumed,
                    attempted, flushes, fault_item, save_old, save_new,
                    appended, config, raw >>

Next ==
    \/ Start
    \/ ForNext
    \/ FetchOk
    \/ FetchFails
    \/ SaveFullBatch
    \/ SaveFullBatchFails
    \/ BatchNotFull
    \/ ResetBatch
    \/ SaveOpen
    \/ SaveOpenFails
    \/ SaveWrite
    \/ TailFlush
    \/ TailFlushFails
    \/ TailEmpty
    \/ KeyboardInterrupt
    \/ Finally
    \/ Crash

Spec == Init /\ [][Next]_vars

\* ------------------------------------------------------------- load alone
\* the characters of a resume file: digits, signs, white space, another one
LoadChars == { "0", "1", "7", "-", "+", " ", "x" }
Texts == UNION { [1 .. n -> LoadChars] : n \in 0 .. MaxTextLen }

\* RESUME_FILE is absent or holds any text, and the script starts
LoadInit ==
    /\ Fresh
    /\ resume_file \in
           { NoFile } \cup { [exists |-> TRUE, text |-> t] : t \in Texts }
    /\ fail_set = { }
    /\ total_games = NumGames
    /\ batch_size = BATCH_SIZE
    /\ raw = FullDocs

LoadNext == Start

LoadSpec == LoadInit /\ [][LoadNext]_vars

\* ------------------------------------------------------------- one game
Kinds == { "num", "text", "nan" }

Frames(maxRows, maxCols) ==
    { NoDataFrame }
    \cup [present : { TRUE }, rows : 0 .. maxRows, cols : 0 .. maxCols,
          kind : Kinds]

\* what the three pages of one game may hold
RawDocs ==
    [officials : { t \in Frames(MaxOfficials, 1) :
                       t.present => t.cols = 1 /\ t.kind = "text" },
     box_score : { t \in Frames(MaxBoxRows, MaxBoxCols) : t.kind # "nan" },
     team_stats : { t \in Frames(MaxStatRows, MaxStatCols) : t.kind # "text" }]

\* game_data has one game, whose pages are any of RawDocs
ExtractInit ==
    /\ Fresh
    /\ resume_file = NoFile
    /\ resume_file = NoFile
    /\ fail_set = { }
    /\ total_games = 1
    /\ batch_size = BATCH_SIZE
    /\ raw \in RawDocs

ExtractNext ==
    \/ Start
    \/ ForNext
    \/ FetchOk
    \/ FetchFails

ExtractSpec == ExtractInit /\ [][ExtractNext]_vars

\* ------------------------------------------------------------- 120 games
\* 120 games in batches of 50, the fetch of game 77 raises, nothing else
\* goes wrong
ScenarioInit ==
    /\ Fresh
    /\ resume_file = NoFile
    /\ resume_file = NoFile
    /\ fail_set = { 77 }
    /\ total_games = 120
    /\ batch_size = 50
    /\ raw = FullDocs

ScenarioNext ==
    \/ Start
    \/ ForNext
    \/ FetchOk
    \/ FetchFails
    \/ SaveFullBatch
    \/ BatchNotFull
    \/ ResetBatch
    \/ SaveOpen
    \/ SaveWrite
    \/ TailFlush
    \/ Finally

ScenarioSpec == ScenarioInit /\ [][ScenarioNext]_vars

\* ------------------------------------------------------------- properties
Count(s, g) == Cardinality({ k \in 1 .. Len(s) : s[k] = g })
Failed(g) == \E k \in 1 .. Len(failed_games) : failed_games[k] = g
InSomeBatch(files, g) ==
    \E b \in DOMAIN files : \E k \in 1 .. Len(files[b]) : files[b][k] = g
\* no write has raised and no process was killed
NoFaults == write_faults = 0 /\ crashes = 0
\* a run was ended by Ctrl-C, and nothing else went wrong
OnlyInterrupts == interrupts >= 1 /\ NoFaults
Ended(how) == pc = "idle" /\ outcome = how

\* C1: when runs that were interrupted and restarted end in a completed run
\* (no write raised, no kill), the final dataset holds what one fresh
\* uninterrupted run over all games holds: the record of every game whose
\* fetch does not fail exactly once, and nothing else.
C1_ResumeEqualsFreshRun ==
    (Ended("completed") /\ OnlyInterrupts)
        => /\ final_file.exists \/ Games \subseteq fail_set
           /\ \A g \in Games :
                Count(final_file.rows, g) = IF g \in fail_set THEN 0 ELSE 1

\* C2: a run started from a resume file that holds the index of game i
\* attempts game i + 1 first.
C2_RestartAttemptsNextItem ==
    (pc # "idle" /\ resumed /\ attempted # << >>)
        => attempted[1] = start_index + 1

C4_BatchFileNeverOverwritten ==
    [][NoFaults =>
         \A b \in DOMAIN batch_files :
            b \in DOMAIN batch_files' /\ batch_files'[b] = batch_files[b]]_vars

\* C5: a record that is in some batch file is in some batch file after
\* every step, over interruptions and restarts.
C5_NoRecordLost ==
    [][NoFaults =>
         \A g \in Games :
            InSomeBatch(batch_files, g) => InSomeBatch(batch_files', g)]_vars

\* C6: after runs cancelled by Ctrl-C and a restart that completes, the final
\* dataset holds at most one record of every game.
C6_NoDuplicateRecords ==
    (Ended("completed") /\ OnlyInterrupts)
        => \A g \in Games : Count(final_file.rows, g) <= 1

\* C7: within one run (here: one that Ctrl-C has not ended) every flushed
\* batch but the last holds exactly BATCH_SIZE records, and the batch numbers
\* of the run's flushes go up by one from each flush to the next.
C7_BatchBoundary ==
    outcome \in { "running", "completed", "aborted" } =>
    \A k \in 1 .. (Len(flushes) - 1) :
        /\ Len(flushes[k].rows) = BATCH_SIZE
        /\ flushes[k + 1].num = flushes[k].num + 1

\* C8: a failing game never ends the run. The games attempted are
\* start_index, start_index + 1, ... in this order, each once; every failing
\* game whose fetch has raised has exactly one entry in failed_games; the loop is
\* left only when the games are exhausted or on Ctrl-C; a run that is not
\* interrupted has attempted every game of [start_index, NumGames).
C8_ItemFailureNeverAborts ==
    pc # "idle" =>
        /\ \A k \in 1 .. Len(attempted) : attempted[k] = start_index + k - 1
        /\ \A g \in fail_set :
              IF Count(attempted, g) = 0 \/ (i = g /\ pc = "fetch")
              THEN Count(failed_games, g) = 0
              ELSE IF i = g /\ outcome = "interrupted"
              THEN Count(failed_games, g) <= 1
              ELSE Count(failed_games, g) = 1
        /\ (pc \in { "tail", "finally" } /\ outcome # "interrupted")
              => /\ nxt >= NumGames
                 /\ \A g \in Games : g >= start_index => Count(attempted, g) = 1
        /\ (pc = "finally" /\ outcome = "aborted") => write_faults > 0

C8_Witness ==
    /\ pc = "finally"
    /\ outcome = "completed"
    /\ start_index = 0
    /\ Len(failed_games) >= 2
    /\ Len(attempted) = NumGames
    /\ write_faults = 0

\* C9: when a write of a batch file or of the resume file raises while game i
\* is handled, the game gets no entry in failed_games, the run ends, and no
\* game after i is attempted.
C9_DurabilityFailureIsFatal ==
    (pc # "idle" /\ fault_item # -1)
        => /\ ~Failed(fault_item)
           /\ pc = "finally"
           /\ attempted[Len(attempted)] = fault_item

\* C10: after a kill during save_resume_state(index), load_resume_state
\* returns the value it returned before the save began or index.
C10_CheckpointSaveCrashAtomic ==
    (Ended("crashed") /\ crash_pc = "save")
        => load_resume_state(resume_file) \in { save_old, save_new }

\* C11: load_resume_state returns 0 where the resume file is absent or its
\* text is no integer, and what it returns is never negative.
C11_LoadReturnsIndex ==
    (pc = "for" /\ attempted = << >>)
        => /\ start_index >= 0
           /\ ~Readable(resume_file) => start_index = 0

\* how often the record of game g stands in the batch files S of files
RECURSIVE CountInFiles(_, _, _)
CountInFiles(files, S, g) ==
    IF S = { } THEN 0
    ELSE LET b == CHOOSE c \in S : TRUE
         IN Count(files[b], g) + CountInFiles(files, S \ { b }, g)

\* the run is in its finally block after Ctrl-C
Interrupted == pc = "finally" /\ outcome = "interrupted"
LastAttempted == attempted[Len(attempted)]

\* C12, as the script behaves: a run that Ctrl-C ended merges as well; when
\* it is over, the final dataset holds every record of every batch file.
C12_InterruptedRunMerges ==
    (Ended("interrupted") /\ DOMAIN batch_files # { })
        => /\ final_file.exists
           /\ \A g \in Games :
                  Count(final_file.rows, g)
                      = CountInFiles(batch_files, DOMAIN batch_files, g)

C12_Witness ==
    /\ Ended("interrupted")
    /\ runs = 1
    /\ final_file.exists
    /\ Len(final_file.rows) >= 1

\* C12, as stated: the finally block of a run that Ctrl-C ended leaves the
\* final dataset as it was.
C12_InterruptedRunLeavesFinal ==
    [][Interrupted => final_file' = final_file]_vars

C14_NoEmptyBatchWritten ==
    /\ \A b \in DOMAIN batch_files : batch_files[b] # << >>
    /\ \A k \in 1 .. Len(flushes) : flushes[k].rows # << >>
    /\ pc # "idle"
          => current_batch - ((start_index \div batch_size) + 1)
                 <= Len(flushes)

C14_Witness ==
    /\ pc = "finally"
    /\ outcome \in { "completed", "interrupted" }
    /\ batch_data = << >>
    /\ attempted # << >>
    /\ Len(flushes) >= 1
    /\ current_batch = (start_index \div batch_size) + 1 + Len(flushes)

\* C15: a merge over the batch files a merge has already read gives the
\* same final dataset, and the finally block that merges leaves the batch
\* files and the resume file as they are.
C15_MergeIdempotent ==
    /\ [](Ended("completed") \/ Ended("interrupted") \/ Ended("aborted")
            => merge_batch_files(batch_files, final_file) = final_file)
    /\ [][(pc = "finally" /\ pc' = "idle" /\ crashes' = crashes)
            => batch_files' = batch_files /\ resume_file' = resume_file]_vars

C15_Witness ==
    /\ pc = "idle"
    /\ runs = 2
    /\ crashes = 0
    /\ flushes = << >>
    /\ final_file.exists
    /\ Len(final_file.rows) >= 2

\* C16, as the script behaves: a fresh run over 120 games in batches of 50,
\* where game 77 alone fails, writes batches of 50, 50 and 19 records, one
\* entry (77) in failed_games.csv, the resume state 119, and a final dataset
\* of 119 records.
C16_ScenarioOutcome ==
    (Ended("completed") /\ runs = 1)
        => /\ Len(flushes) = 3
           /\ [k \in 1 .. 3 |-> Len(flushes[k].rows)] = << 50, 50, 19 >>
           /\ DOMAIN batch_files = { 1, 2, 3 }
           /\ failed_file.rows = << 77 >>
           /\ resume_file.text = << "1", "1", "9" >>
           /\ Len(final_file.rows) = 119

C16_Witness ==
    /\ Ended("completed")
    /\ runs = 1
    /\ total_games = 120
    /\ failed_file.exists
    /\ Len(final_file.rows) = 119

\* C16, as stated: the same run writes batches of 50, 50 and 20 records.
C16_ScenarioAsStated ==
    (Ended("completed") /\ runs = 1)
        => /\ Len(flushes) = 3
           /\ [k \in 1 .. 3 |-> Len(flushes[k].rows)] = << 50, 50, 20 >>
           /\ DOMAIN batch_files = { 1, 2, 3 }
           /\ failed_file.rows = << 77 >>
           /\ resume_file.text = << "1", "1", "9" >>
           /\ Len(final_file.rows) = 119

\* C17: when Ctrl-C ended a run after game i was appended and before
\* save_resume_state(i) was over, the range of games the restarted run goes
\* through holds no game the interrupted run appended except i, and begins
\* no later than i + 1.
C17_AtMostOneReprocessed ==
    [][(pc = "idle" /\ pc' = "for" /\ outcome = "interrupted" /\ NoFaults
          /\ cut_pc \in { "after_append", "save" })
         => /\ \A g \in appended \ { LastAttempted } : g < start_index'
            /\ start_index' <= LastAttempted + 1]_vars

\* C18: Ctrl-C ends the loop only between two games, so that afterwards the
\* record of the last attempted game, where it was appended, is in a batch
\* file and the resume file holds that game's index.
C18_InterruptOnlyBetweenItems ==
    Interrupted
        => /\ cut_pc = "between"
           /\ (attempted # << >> /\ LastAttempted \in appended)
                 => /\ InSomeBatch(batch_files, LastAttempted)
                    /\ Readable(resume_file)
                    /\ load_resume_state(resume_file) = LastAttempted

\* C19: for a game with k officials, k from 0 (no officials table as well)
\* to 3, Official_1 .. Official_k of its record are the k names in order
\* and the other official fields are None.
C19_OfficialsPadded ==
    (pc = "check" /\ raw.officials.rows <= 3)
        => \A j \in 1 .. 3 :
               << ExtractGameInfo(raw).Official_1,
                  ExtractGameInfo(raw).Official_2,
                  ExtractGameInfo(raw).Official_3 >>[j]
                   = IF j <= raw.officials.rows
                     THEN iloc(raw.officials, j - 1, 0)
                     ELSE None

\* C20: a game whose box-score or team-stats table is shorter or narrower
\* than the cells read of it gets a record, with None in the fields of the
\* cells that are missing, and no entry in failed_games.
C20_ShortTableDegrades ==
    (attempted = << 0 >> /\ pc # "fetch")
        => /\ failed_games = << >>
           /\ 0 \in appended
           /\ \A f \in DOMAIN BoxCells :
                  ~InFrame(raw.box_score, BoxCells[f][1], BoxCells[f][2])
                      => ExtractGameInfo(raw)[f] = None

\* the rows of the batch files numbered lo .. hi, in ascending number
RECURSIVE RowsInNumberOrder(_, _, _)
RowsInNumberOrder(files, lo, hi) ==
    IF lo > hi THEN << >>
    ELSE (IF lo \in DOMAIN files THEN files[lo] ELSE << >>)
             \o RowsInNumberOrder(files, lo + 1, hi)

\* the greatest batch number a run over the games can write
MaxBatch == (total_games \div batch_size) + 1

C22_AccumulatorBounded ==
    /\ Len(batch_data) <= batch_size
    /\ pc = "fetch" => Len(batch_data) < batch_size

\* C23: within a run no game has both a record appended to batch_data (or
\* written to a batch file by the run) and an entry in failed_games, also
\* when save_batch_data or save_resume_state raises after the append.
C23_OneOutcomePerItem ==
    pc # "idle"
        => \A g \in Games :
               ~(/\ \/ g \in appended
                    \/ \E k \in 1 .. Len(flushes) :
                           Count(flushes[k].rows, g) >= 1
                 /\ Failed(g))

\* C24: a run started after a run that went through all games and ended
\* normally attempts no game and writes no batch file, and the final dataset
\* after it is the one of before: every game whose fetch does not fail, once.
C24_RerunAfterCompletedIsNoOp ==
    (runs >= 2 /\ NoFaults /\ interrupts = 0)
        => /\ attempted = << >>
           /\ flushes = << >>
           /\ Ended("completed")
                 => \A g \in Games :
                        Count(final_file.rows, g)
                            = IF g \in fail_set THEN 0 ELSE 1

\* C25: the index a save_resume_state call stores is never less than the
\* index the resume file held when the call began (0 where it held none),
\* within a run and from one run to the next: so it is when the call has
\* opened the file, and when the loop is back at the for statement.
C25_CheckpointNeverDecreases ==
    /\ pc = "save_write" => save_new >= save_old
    /\ (pc = "for" /\ Readable(resume_file))
          => load_resume_state(resume_file) >= save_old

C25_Witness ==
    /\ runs = 2
    /\ resumed
    /\ interrupts >= 1
    /\ pc = "for"
    /\ save_old >= 1
    /\ Readable(resume_file)
    /\ load_resume_state(resume_file) > save_old

====
